---------------------------- MODULE Spec2Model ----------------------------
(***************************************************************************)
(* State-machine model of the PyGaSe game server.                          *)
(*                                                                         *)
(*   - GameStateStore (src/pygase/backend.py): canonical state + bounded   *)
(*     update cache.                                                       *)
(*   - GameService / _GameServiceRequestHandler / GameLoop                 *)
(*     (src/PyGaSe/gameService.py): threaded UDP server whose request      *)
(*     handlers and game-loop thread share one game state, one update      *)
(*     cache, one player counter and one activity queue.                   *)
(*   - Server.dispatch_event (src/pygase/backend.py): event dispatch with  *)
(*     retry-by-timeout-callback.                                          *)
(*                                                                         *)
(* The state/update value types (sharedGameData, pygase.gamestate) and the *)
(* per-client connection object (pygase.connection) are imported by the    *)
(* sources but are not part of them; their operators are written from the  *)
(* design document's merge algebra and connection contract.                *)
(***************************************************************************)
EXTENDS Naturals, Integers, Sequences, FiniteSets, TLC

(***************************************************************************)
(* Bounds of the model                                                     *)
(***************************************************************************)
\* largest time_order a harness push may carry / the service may reach
MaxTime == 2
\* pushes per behaviour of the store harness
MaxPushes == 3

(***************************************************************************)
(* Program constants                                                       *)
(***************************************************************************)
\* GameStateStore._update_cache_size
_update_cache_size == 100
\* gameService.UPDATE_CACHE_SIZE
UPDATE_CACHE_SIZE == 100

(***************************************************************************)
(* State & update value types                                              *)
(*                                                                         *)
(* A state or an update is [time_order, attrs], attrs a function from the  *)
(* attribute names that are set to their values.  "players" is the nested  *)
(* container: a function from player ids to a name, or (in an update) to   *)
(* the deletion sentinel.                                                  *)
(***************************************************************************)
TO_DELETE == "TO_DELETE"
NoAttrs == [k \in {} |-> 0]

\* GameStateUpdate(time_order, **attrs) / SharedGameStateUpdate(...)
GameStateUpdate(t, a) == [time_order |-> t, attrs |-> a]

\* `a > b` on states and updates: ordered by time_order alone
Gt(a, b) == a.time_order > b.time_order

\* recursive merge of a nested container; with delete, sentinel keys are
\* removed from the result, otherwise the sentinel is carried along
RecursiveUpdateNested(d, u, delete) ==
    LET dropped == IF delete THEN {k \in DOMAIN u : u[k] = TO_DELETE} ELSE {}
        keys == (DOMAIN d \cup DOMAIN u) \ dropped
    IN [k \in keys |-> IF k \in DOMAIN u THEN u[k] ELSE d[k]]

\* merge of the attribute sets: present attributes overwrite, the nested
\* container merges key by key, absent attributes are untouched
RecursiveUpdate(d, u, delete) ==
    [k \in DOMAIN d \cup DOMAIN u |->
        IF k \notin DOMAIN u THEN d[k]
        ELSE IF k = "players"
             THEN RecursiveUpdateNested(IF k \in DOMAIN d THEN d[k] ELSE NoAttrs,
                                        u[k], delete)
             ELSE u[k]]

\* state += update (Apply): only a newer update changes the state
Apply(state, update) ==
    IF Gt(update, state)
    THEN [time_order |-> update.time_order,
          attrs |-> RecursiveUpdate(state.attrs, update.attrs, TRUE)]
    ELSE state

\* update + update (Combine): the newer operand's values win
Combine(u1, u2) ==
    IF Gt(u2, u1)
    THEN [time_order |-> u2.time_order,
          attrs |-> RecursiveUpdate(u1.attrs, u2.attrs, FALSE)]
    ELSE [time_order |-> u1.time_order,
          attrs |-> RecursiveUpdate(u2.attrs, u1.attrs, FALSE)]

\* the last n elements of s
LastN(s, n) == IF Len(s) <= n THEN s ELSE SubSeq(s, Len(s) - n + 1, Len(s))

(***************************************************************************)
(* Variables                                                               *)
(***************************************************************************)
VARIABLES
    \* which program the behaviour runs and how its threads are scheduled:
    \* "store" (a GameStateStore and its caller), "service" (the GameService,
    \* threads preempted anywhere), "serial" (the GameService, every request
    \* and every loop iteration run to its end before another thread runs)
    mode,
    \* GameStateStore._game_state, ._game_state_update_cache
    _game_state,
    _game_state_update_cache,
    \* every update handed to push_update / _cache_state_update, in call order
    pushed,
    \* GameService.shared_game_state (the object GameLoop shares)
    shared_game_state,
    \* GameService._player_counter
    _player_counter,
    \* GameService._client_activity_queue (the list GameLoop shares)
    _client_activity_queue,
    \* GameLoop._state_update_cache
    _state_update_cache,
    \* GameLoop._game_loop_thread: 0 is the Thread() of __init__, never started
    _game_loop_thread,
    \* the game-loop Thread objects: position in _update_cycle and its local update
    loops,
    \* whether GameService._server_thread is serving requests
    serving,
    \* the request-handler threads: position in handle() and its locals
    handlers,
    \* a client: the state it holds, once it has asked for the full state
    client,
    \* Server.connections: the addresses of the connected clients
    connections,
    \* the application's call of Server.dispatch_event: its arguments, and
    \* whether it raised
    call,
    \* events handed to a connection and neither acknowledged nor timed out:
    \* how many, per connection and per `retries` of the dispatch that sent them
    pending,
    \* per connection: events handed to it, acknowledgments that arrived for
    \* them, ack_callback calls made for it
    sent,
    acks,
    ack_calls,
    \* GameStateMachine._game_loop_is_running
    _game_loop_is_running,
    \* GameStateMachine._event_queue: the events put and not yet got
    _event_queue,
    \* the calls of run_game_loop: position in it and its locals
    machines,
    \* the call of GameStateMachine.stop: position in it and its locals
    stopper,
    \* the events the universal event handler has handled, in handling order
    handled,
    \* how many events _push_event has put; the n-th event put is the number n
    enqueued

storeVars == <<_game_state, _game_state_update_cache>>
dispatchVars == <<connections, call, pending, sent, acks, ack_calls>>
machineVars == <<_game_loop_is_running, _event_queue, machines, stopper, handled,
                 enqueued>>
\* what the GameService never touches
backendVars == <<storeVars, dispatchVars, machineVars>>
serviceVars == <<shared_game_state, _player_counter, _client_activity_queue,
                 _state_update_cache, _game_loop_thread, loops, serving, handlers,
                 client>>
vars == <<mode, _game_state, _game_state_update_cache, pushed,
          shared_game_state, _player_counter, _client_activity_queue,
          _state_update_cache, _game_loop_thread, loops, serving, handlers, client,
          connections, call, pending, sent, acks, ack_calls,
          _game_loop_is_running, _event_queue, machines, stopper, handled, enqueued>>

(***************************************************************************)
(* GameStateStore                                                          *)
(***************************************************************************)
\* GameStateStore.__init__ with the default initial state
StoreInit ==
    /\ _game_state = [time_order |-> 0, attrs |-> NoAttrs]
    /\ _game_state_update_cache = <<GameStateUpdate(0, NoAttrs)>>

\* a bug variant: at capacity the newest entry is dropped, not the oldest
push_update_cache_DropNewest(cache, update) ==
    IF Len(cache) + 1 > _update_cache_size THEN cache ELSE Append(cache, update)

\* push_update, cache part: append, then evict the oldest beyond capacity
push_update_cache(cache, update) ==
    LET c == Append(cache, update)
    IN IF Len(c) > _update_cache_size THEN Tail(c) ELSE c

\* a bug variant: the update is merged whatever its time_order
push_update_state_Unguarded(state, update) ==
    [time_order |-> update.time_order,
     attrs |-> RecursiveUpdate(state.attrs, update.attrs, TRUE)]

\* push_update, state part: apply only an update newer than the state
push_update_state(state, update) ==
    IF Gt(update, state) THEN Apply(state, update) ELSE state

push_update(update) ==
    /\ _game_state_update_cache' = push_update_cache(_game_state_update_cache, update)
    /\ _game_state' = push_update_state(_game_state, update)
    /\ pushed' = Append(pushed, update)

(***************************************************************************)
(* Server.dispatch_event (src/pygase/backend.py)                           *)
(*                                                                         *)
(* A connection's dispatch_event(event, ack_callback, timeout_callback)    *)
(* delivers one event and later calls exactly one of the two callbacks:    *)
(* the acknowledgment callback when the client acknowledges, the timeout   *)
(* callback when it does not.  Both run in the connection's task, not in   *)
(* the caller of Server.dispatch_event.                                    *)
(***************************************************************************)
\* largest `retries` the application passes
MaxRetries == 2

Clients == {"a", "b"}
\* an address that is not connected
Stranger == "x"
NoCall == [made |-> FALSE, target_client |-> "all", retries |-> 0,
           ack_callback |-> FALSE, raised |-> FALSE]

\* Server.__init__, with the clients connected
ServerInit ==
    /\ connections = Clients
    /\ call = NoCall
    /\ pending = [c \in Clients |-> [r \in 0..MaxRetries |-> 0]]
    /\ sent = [c \in Clients |-> 0]
    /\ acks = [c \in Clients |-> 0]
    /\ ack_calls = [c \in Clients |-> 0]

\* a bug variant: a timeout callback is made even when no retry is left
has_timeout_callback_Always(retries) == retries >= 0

\* lines 205-206: a timeout callback is made if retries > 0
has_timeout_callback(retries) == retries > 0

\* lines 219-225: the connections the event is handed to
targets(target_client) ==
    IF target_client = "all" THEN connections ELSE {target_client}

\* lines 219-225: dispatch_event hands the event to every target connection
hand_over(target_client, retries) ==
    /\ pending' = [c \in Clients |->
          IF c \in targets(target_client)
          THEN [pending[c] EXCEPT ![retries] = @ + 1]
          ELSE pending[c]]
    /\ sent' = [c \in Clients |->
          IF c \in targets(target_client) THEN sent[c] + 1 ELSE sent[c]]

DispatchFrame == <<mode, storeVars, pushed, serviceVars, machineVars>>

\* a bug variant: any target is taken for a connected one
is_known_target_Any(target_client) == TRUE

\* lines 219-223: "all", or a key of the connections dict
is_known_target(target_client) ==
    target_client = "all" \/ target_client \in connections

\* the application calls dispatch_event(event_type, target_client=...,
\* retries=..., ack_callback=...); a target that is no key of `connections`
\* raises KeyError (line 223)
DispatchEvent ==
    /\ mode = "dispatch"
    /\ ~call.made
    /\ \E target_client \in Clients \cup {"all", Stranger}, retries \in 0..MaxRetries,
          ack_callback \in BOOLEAN :
          IF is_known_target(target_client)
          THEN /\ call' = [made |-> TRUE, target_client |-> target_client,
                           retries |-> retries, ack_callback |-> ack_callback,
                           raised |-> FALSE]
               /\ hand_over(target_client, retries)
          ELSE /\ call' = [made |-> TRUE, target_client |-> target_client,
                           retries |-> retries, ack_callback |-> ack_callback,
                           raised |-> TRUE]
               /\ UNCHANGED <<pending, sent>>
    /\ UNCHANGED <<DispatchFrame, connections, acks, ack_calls>>

\* an event sent with `retries` times out at connection c: the connection calls
\* the timeout callback, if there is one, which calls dispatch_event again
\* with the same target_client and retries - 1 (lines 208-217)
Timeout(c, retries) ==
    /\ mode = "dispatch"
    /\ pending[c][retries] > 0
    /\ IF has_timeout_callback(retries)
       THEN LET left == [pending EXCEPT ![c][retries] = @ - 1]
            IN /\ pending' = [d \in Clients |->
                     IF d \in targets(call.target_client)
                     THEN [left[d] EXCEPT ![retries - 1] = @ + 1]
                     ELSE left[d]]
               /\ sent' = [d \in Clients |->
                     IF d \in targets(call.target_client) THEN sent[d] + 1 ELSE sent[d]]
       ELSE /\ pending' = [pending EXCEPT ![c][retries] = @ - 1]
            /\ UNCHANGED sent
    /\ UNCHANGED <<DispatchFrame, connections, call, acks, ack_calls>>

\* connection c acknowledges an event: the connection calls the
\* acknowledgment callback, if there is one (lines 200-203)
Acknowledge(c, retries) ==
    /\ mode = "dispatch"
    /\ pending[c][retries] > 0
    /\ pending' = [pending EXCEPT ![c][retries] = @ - 1]
    /\ acks' = [acks EXCEPT ![c] = @ + 1]
    /\ ack_calls' = [ack_calls EXCEPT ![c] = IF call.ack_callback THEN @ + 1 ELSE @]
    /\ UNCHANGED <<DispatchFrame, connections, call, sent>>

(***************************************************************************)
(* GameStateMachine (src/pygase/backend.py): construction                  *)
(***************************************************************************)
\* the calls of run_game_loop the application makes
MachineIds == {1, 2}

\* a call of run_game_loop not made yet: update_dict, event and the
\* time_order read for the next push are its locals; events are the events
\* handled so far in its current tick, in handling order
UnusedMachine == [pc |-> "unused", update_dict |-> NoAttrs, event |-> 0,
                  time_order |-> 0, events |-> <<>>]
\* stop() not called yet
IdleStopper == [pc |-> "idle", time_order |-> 0, result |-> FALSE]

\* GameStateMachine.__init__
MachineIdle ==
    /\ _game_loop_is_running = FALSE
    /\ _event_queue = <<>>
    /\ machines = [i \in MachineIds |-> UnusedMachine]
    /\ stopper = IdleStopper
    /\ handled = <<>>
    /\ enqueued = 0

(***************************************************************************)
(* GameService, its request handlers and its GameLoop                      *)
(* (src/PyGaSe/gameService.py)                                             *)
(*                                                                         *)
(* GameService is a socketserver.ThreadingUDPServer: every datagram is     *)
(* handled by handle() in a thread of its own, and the game loop runs      *)
(* _update_cycle in another thread.  None of the shared objects is         *)
(* locked, so a step below is one statement of the source (an augmented    *)
(* assignment `x += 1` is a read and a write), and the steps of the        *)
(* threads interleave freely.                                              *)
(***************************************************************************)
\* the handler threads of a behaviour, one per datagram, "idle" until it arrives
HandlerIds == {1, 2}
LoopIds == {1, 2}
Names == {"A"}
\* payloads of application-defined activities
Payloads == {90, 80}

NoUpdate == GameStateUpdate(0, NoAttrs)
NoResponse == [kind |-> "none", body |-> NoUpdate]
IdleHandler ==
    [pc |-> "idle", kind |-> "none", time_order |-> 0, name |-> "",
     payload |-> 0, tmp |-> 0, update |-> NoUpdate, response |-> NoResponse]
DoneHandler == [IdleHandler EXCEPT !.pc = "done"]
UnusedLoop == [pc |-> "unused", update |-> NoUpdate]

\* SharedGameState.is_paused()
is_paused(state) ==
    "game_status" \in DOMAIN state.attrs /\ state.attrs["game_status"] = "Paused"

\* assignment to shared_game_state.game_status
SetStatus(state, status) ==
    [state EXCEPT !.attrs =
        [k \in DOMAIN state.attrs \cup {"game_status"} |->
            IF k = "game_status" THEN status ELSE state.attrs[k]]]

\* Thread.is_alive(): started and not yet returned
is_alive(t) == t # 0 /\ loops[t].pc \notin {"unused", "new", "done"}

\* GameLoop._cache_state_update: append, then drop the oldest beyond capacity
cache_state_update(cache, state_update) ==
    LET c == Append(cache, state_update)
    IN IF Len(c) > UPDATE_CACHE_SIZE THEN Tail(c) ELSE c

_cache_state_update(state_update) ==
    /\ _state_update_cache' = cache_state_update(_state_update_cache, state_update)
    /\ pushed' = Append(pushed, state_update)

\* GameService.__init__ and GameLoop.__init__
ServiceInit ==
    /\ shared_game_state = [time_order |-> 0, attrs |-> [game_status |-> "Paused"]]
    /\ _player_counter = 0
    /\ _client_activity_queue = <<>>
    /\ _state_update_cache = <<>>
    /\ _game_loop_thread = 0
    /\ loops = [i \in LoopIds |-> UnusedLoop]
    /\ serving = FALSE
    /\ handlers = [h \in HandlerIds |-> IdleHandler]
    /\ client = [known |-> FALSE, state |-> [time_order |-> 0, attrs |-> NoAttrs]]

Running(h) == handlers[h].pc \notin {"idle", "done"}
InIteration(i) == loops[i].pc \in {"build", "activities", "apply", "cache"}
AllHandlersIdle == \A h \in HandlerIds : ~Running(h)
IsService == mode \in {"service", "serial"}

\* the scheduler: in "serial" a thread runs only while no other thread is
\* inside a request or inside a loop iteration
MayRunHandler(h) ==
    \/ mode = "service"
    \/ /\ mode = "serial"
       /\ \A g \in HandlerIds \ {h} : ~Running(g)
       /\ \A i \in LoopIds : ~InIteration(i)
MayRunLoop(i) ==
    \/ mode = "service"
    \/ /\ mode = "serial"
       /\ AllHandlersIdle
       /\ \A j \in LoopIds \ {i} : ~InIteration(j)

\* a Thread object that can be (re)allocated: never started or finished ones
\* that nothing runs any more
FreeLoops == {i \in LoopIds : loops[i].pc \in {"unused", "new", "done"}}
NewLoop == CHOOSE i \in FreeLoops : \A j \in FreeLoops : i <= j

\* GameService.start(): start the game loop, then serve requests
ServiceStart ==
    /\ IsService
    /\ ~serving
    /\ AllHandlersIdle
    /\ serving' = TRUE
    /\ IF is_alive(_game_loop_thread)
       THEN UNCHANGED <<_game_loop_thread, loops, shared_game_state>>
       ELSE /\ FreeLoops # {}
            /\ _game_loop_thread' = NewLoop
            /\ loops' = [loops EXCEPT ![NewLoop] = [pc |-> "check", update |-> NoUpdate]]
            /\ shared_game_state' = SetStatus(shared_game_state, "Active")
    /\ UNCHANGED <<mode, backendVars, pushed, _player_counter, _client_activity_queue,
                   _state_update_cache, handlers, client>>

(***************************************************************************)
(* GameLoop._update_cycle, one statement per step                          *)
(***************************************************************************)
LoopFrame == <<mode, backendVars, _player_counter, _game_loop_thread, serving, handlers,
               client>>

\* line 179: while not is_paused()
LoopCheck(i, cap) ==
    /\ MayRunLoop(i)
    /\ loops[i].pc = "check"
    /\ IF is_paused(shared_game_state)
       THEN loops' = [loops EXCEPT ![i].pc = "done"]
       ELSE /\ shared_game_state.time_order < cap
            /\ loops' = [loops EXCEPT ![i].pc = "build"]
    /\ UNCHANGED <<LoopFrame, shared_game_state, _client_activity_queue,
                   _state_update_cache, pushed>>

\* line 182: update = SharedGameStateUpdate(time_order + 1)
LoopBuild(i) ==
    /\ MayRunLoop(i)
    /\ loops[i].pc = "build"
    /\ loops' = [loops EXCEPT ![i] =
          [pc |-> "activities",
           update |-> GameStateUpdate(shared_game_state.time_order + 1, NoAttrs)]]
    /\ UNCHANGED <<LoopFrame, shared_game_state, _client_activity_queue,
                   _state_update_cache, pushed>>

\* handle_activity as a subclass of GameLoop would override it: the activity's
\* payload becomes the update's hp
RECURSIVE handle_activities(_, _)
handle_activities(update, activities) ==
    IF activities = <<>> THEN update
    ELSE handle_activities(
            [update EXCEPT !.attrs =
                RecursiveUpdate(update.attrs, [hp |-> Head(activities)], FALSE)],
            Tail(activities))

\* lines 184-190: handle the first 5 queued activities, then update_game_state
\* (overridden to change nothing)
LoopActivities(i) ==
    /\ MayRunLoop(i)
    /\ loops[i].pc = "activities"
    /\ LET n == IF Len(_client_activity_queue) < 5 THEN Len(_client_activity_queue) ELSE 5
           activities_to_handle == SubSeq(_client_activity_queue, 1, n)
       IN /\ loops' = [loops EXCEPT ![i] =
                [pc |-> "apply",
                 update |-> handle_activities(loops[i].update, activities_to_handle)]]
          /\ _client_activity_queue' =
                SubSeq(_client_activity_queue, n + 1, Len(_client_activity_queue))
    /\ UNCHANGED <<LoopFrame, shared_game_state, _state_update_cache, pushed>>

\* lines 187 and 190: a hook raises and the exception ends the thread.  The
\* hooks of GameLoop itself raise NotImplementedError, and GameLoop itself is
\* what GameService.__init__ constructs (line 42), unless the application
\* puts an object of a subclass in its place.
LoopRaise(i) ==
    /\ MayRunLoop(i)
    /\ loops[i].pc = "activities"
    /\ loops' = [loops EXCEPT ![i] = [pc |-> "done", update |-> NoUpdate]]
    /\ \/ \* handle_activity raises at the first activity, before its `del`
          /\ _client_activity_queue # <<>>
          /\ UNCHANGED _client_activity_queue
       \/ \* update_game_state raises, the activities handled and removed
          LET n == IF Len(_client_activity_queue) < 5 THEN Len(_client_activity_queue) ELSE 5
          IN _client_activity_queue' =
                SubSeq(_client_activity_queue, n + 1, Len(_client_activity_queue))
    /\ UNCHANGED <<LoopFrame, shared_game_state, _state_update_cache, pushed>>

\* line 192: self._shared_game_state += update
LoopApply(i) ==
    /\ MayRunLoop(i)
    /\ loops[i].pc = "apply"
    /\ shared_game_state' = Apply(shared_game_state, loops[i].update)
    /\ loops' = [loops EXCEPT ![i].pc = "cache"]
    /\ UNCHANGED <<LoopFrame, _client_activity_queue, _state_update_cache, pushed>>

\* lines 193-195: cache the update, sleep, loop
LoopCache(i) ==
    /\ MayRunLoop(i)
    /\ loops[i].pc = "cache"
    /\ _cache_state_update(loops[i].update)
    /\ loops' = [loops EXCEPT ![i] = [pc |-> "check", update |-> NoUpdate]]
    /\ UNCHANGED <<LoopFrame, shared_game_state, _client_activity_queue>>

(***************************************************************************)
(* _GameServiceRequestHandler.handle, one statement per step               *)
(***************************************************************************)
\* largest number of players the model lets join
MaxPlayers == 2
\* longest activity queue the model lets build up
MaxQueue == 1

\* a handler thread moves on: new position and changed locals
Goto(h, pc, changes) ==
    handlers' = [handlers EXCEPT ![h] =
        [k \in DOMAIN IdleHandler |->
            IF k = "pc" THEN pc
            ELSE IF k \in DOMAIN changes THEN changes[k] ELSE handlers[h][k]]]

At(h, pc) == MayRunHandler(h) /\ handlers[h].pc = pc

\* lines 133 and 142: the empty response of an activity request is sent and the
\* handler thread ends; neither touches a shared object
Return(h) == handlers' = [handlers EXCEPT ![h] = DoneHandler]

ReceiveFrame == <<mode, backendVars, pushed, shared_game_state, _player_counter,
                  _client_activity_queue, _state_update_cache, _game_loop_thread,
                  loops, serving, client>>

\* A datagram arrives (lines 79-82) and its handler thread reaches the first
\* statement of the branch of its request type.
\* The server starts one thread per datagram; the threads are anonymous, so
\* they are taken in the order of their ids.  Serially scheduled, a thread
\* has ended before the next datagram is handled, and its slot is taken again.
Accepts(h) ==
    /\ serving
    /\ MayRunHandler(h)
    /\ \/ /\ mode = "service"
          /\ handlers[h].pc = "idle"
          /\ \A g \in HandlerIds : g < h => handlers[g].pc # "idle"
       \/ /\ mode = "serial"
          /\ h = 1
          /\ ~Running(h)

\* a bug variant: the datagram that cannot be unpacked gets the empty response
unpack_error_Empty == [kind |-> "response", body |-> NoUpdate]

\* line 85, gsp._unpack_error('Server responded: Byte error.')
unpack_error == [kind |-> "unpack_error", body |-> NoUpdate]

\* lines 81-85: from_datagram raises, the datagram cannot be unpacked; the
\* exception is one of those the handler catches
ReceiveMalformed(h) ==
    /\ Accepts(h)
    /\ Goto(h, "send", [kind |-> "malformed", response |-> unpack_error])
    /\ UNCHANGED ReceiveFrame

\* lines 137-139: no known request type
ReceiveInvalid(h) ==
    /\ Accepts(h)
    /\ Goto(h, "send", [kind |-> "invalid",
                        response |-> [kind |-> "request_invalid_error", body |-> NoUpdate]])
    /\ UNCHANGED ReceiveFrame

\* line 90: an update request whose body carries the client's time_order
ReceiveUpdateRequest(h) ==
    /\ Accepts(h)
    /\ \E t \in 0..MaxTime : Goto(h, "update_sum", [kind |-> "update", time_order |-> t])
    /\ UNCHANGED ReceiveFrame

\* line 134: a state request; the client sends it once, to get its first state
ReceiveStateRequest(h) ==
    /\ Accepts(h)
    /\ ~client.known
    /\ Goto(h, "state_read", [kind |-> "state"])
    /\ UNCHANGED ReceiveFrame

\* line 100: a PauseGame activity
ReceivePause(h, cap) ==
    /\ Accepts(h)
    /\ shared_game_state.time_order < cap
    /\ Goto(h, "pause_flag", [kind |-> "pause"])
    /\ UNCHANGED ReceiveFrame

\* line 107: a ResumeGame activity
ReceiveResume(h, cap) ==
    /\ Accepts(h)
    /\ shared_game_state.time_order < cap
    /\ Goto(h, "resume_read", [kind |-> "resume"])
    /\ UNCHANGED ReceiveFrame

\* line 114: a JoinServer activity
ReceiveJoin(h, cap) ==
    /\ Accepts(h)
    /\ shared_game_state.time_order < cap
    /\ _player_counter < MaxPlayers
    /\ \E n \in Names : Goto(h, "join_build", [kind |-> "join", name |-> n])
    /\ UNCHANGED ReceiveFrame

\* line 130: any other activity
ReceiveOther(h) ==
    /\ Accepts(h)
    /\ Len(_client_activity_queue) < MaxQueue
    /\ \E p \in Payloads : Goto(h, "enqueue", [kind |-> "other", payload |-> p])
    /\ UNCHANGED ReceiveFrame

HandlerFrame == <<mode, backendVars, _game_loop_thread, loops, serving, client>>

\* sum(iterable, start): the left fold ((start + u1) + u2) + ... of `+`.
\* The fold of updates[lo..hi] onto start is the fold of the upper half onto
\* the fold of the lower half; the lower half's result is looked at before
\* it is handed on, which keeps the evaluation of a 100-entry cache shallow.
RECURSIVE sum_range(_, _, _, _)
sum_range(updates, lo, hi, start) ==
    IF lo > hi THEN start
    ELSE IF lo = hi THEN Combine(start, updates[lo])
    ELSE LET mid == (lo + hi) \div 2
             lower == sum_range(updates, lo, mid, start)
         IN CASE lower.time_order >= start.time_order ->
                    sum_range(updates, mid + 1, hi, lower)

sum(updates, start) == sum_range(updates, 1, Len(updates), start)

\* the generator (upd for upd in cache if upd > body): in cache order
newer_than(cache, body) == SelectSeq(cache, LAMBDA upd : Gt(upd, body))

\* a bug variant: updates as old as the client's are included too
update_response_Inclusive(cache, body) ==
    [kind |-> "update",
     body |-> sum(SelectSeq(cache, LAMBDA upd : upd.time_order >= body.time_order), body)]

\* lines 90-96: the response to an update request with body `body`
update_response(cache, body) ==
    [kind |-> "update", body |-> sum(newer_than(cache, body), body)]

HandleUpdateRequest(h) ==
    /\ At(h, "update_sum")
    /\ Goto(h, "send",
            [response |-> update_response(_state_update_cache,
                                          GameStateUpdate(handlers[h].time_order, NoAttrs))])
    /\ UNCHANGED <<HandlerFrame, pushed, shared_game_state, _player_counter,
                   _client_activity_queue, _state_update_cache>>

\* lines 134-136 and 142: the response to a state request wraps the shared
\* state object itself, not a copy, and to_datagram() reads the object when
\* the response is sent.  Nothing holds the other threads off meanwhile, so
\* the time_order and the attributes are read in two steps, in either order;
\* tmp is 1 when the time_order is the part still to be read, 2 when the
\* attributes are.
HandleStateRequest(h) ==
    /\ At(h, "state_read")
    /\ \/ Goto(h, "state_read_rest",
               [tmp |-> 2,
                response |-> [kind |-> "state",
                              body |-> [time_order |-> shared_game_state.time_order,
                                        attrs |-> NoAttrs]]])
       \/ Goto(h, "state_read_rest",
               [tmp |-> 1,
                response |-> [kind |-> "state",
                              body |-> [time_order |-> 0,
                                        attrs |-> shared_game_state.attrs]]])
    /\ UNCHANGED <<HandlerFrame, pushed, shared_game_state, _player_counter,
                   _client_activity_queue, _state_update_cache>>

\* line 142: the rest of the shared state object is read
HandleStateRequestRest(h) ==
    /\ At(h, "state_read_rest")
    /\ Goto(h, "send",
            [tmp |-> 0,
             response |-> [kind |-> "state",
                           body |-> IF handlers[h].tmp = 1
                                    THEN [handlers[h].response.body EXCEPT
                                             !.time_order = shared_game_state.time_order]
                                    ELSE [handlers[h].response.body EXCEPT
                                             !.attrs = shared_game_state.attrs]]])
    /\ UNCHANGED <<HandlerFrame, pushed, shared_game_state, _player_counter,
                   _client_activity_queue, _state_update_cache>>

\* line 101: game_loop.pause()
PauseFlag(h) ==
    /\ At(h, "pause_flag")
    /\ shared_game_state' = SetStatus(shared_game_state, "Paused")
    /\ Goto(h, "pause_read", NoAttrs)
    /\ UNCHANGED <<HandlerFrame, pushed, _player_counter, _client_activity_queue,
                   _state_update_cache>>

\* line 102, time_order += 1: the read
PauseIncRead(h) ==
    /\ At(h, "pause_read")
    /\ Goto(h, "pause_write", [tmp |-> shared_game_state.time_order])
    /\ UNCHANGED <<HandlerFrame, pushed, shared_game_state, _player_counter,
                   _client_activity_queue, _state_update_cache>>

\* line 102, time_order += 1: the write
PauseIncWrite(h) ==
    /\ At(h, "pause_write")
    /\ shared_game_state' = [shared_game_state EXCEPT !.time_order = handlers[h].tmp + 1]
    /\ Goto(h, "pause_cache", NoAttrs)
    /\ UNCHANGED <<HandlerFrame, pushed, _player_counter, _client_activity_queue,
                   _state_update_cache>>

\* lines 103-106: cache an update with the state's time_order and status Paused
PauseCache(h) ==
    /\ At(h, "pause_cache")
    /\ _cache_state_update(GameStateUpdate(shared_game_state.time_order,
                                           [game_status |-> "Paused"]))
    /\ Return(h)
    /\ UNCHANGED <<HandlerFrame, shared_game_state, _player_counter,
                   _client_activity_queue>>

\* line 108, time_order += 1: the read
ResumeIncRead(h) ==
    /\ At(h, "resume_read")
    /\ Goto(h, "resume_write", [tmp |-> shared_game_state.time_order])
    /\ UNCHANGED <<HandlerFrame, pushed, shared_game_state, _player_counter,
                   _client_activity_queue, _state_update_cache>>

\* line 108, time_order += 1: the write
ResumeIncWrite(h) ==
    /\ At(h, "resume_write")
    /\ shared_game_state' = [shared_game_state EXCEPT !.time_order = handlers[h].tmp + 1]
    /\ Goto(h, "resume_cache", NoAttrs)
    /\ UNCHANGED <<HandlerFrame, pushed, _player_counter, _client_activity_queue,
                   _state_update_cache>>

\* lines 109-112: cache an update with the state's time_order and status Active
ResumeCache(h) ==
    /\ At(h, "resume_cache")
    /\ _cache_state_update(GameStateUpdate(shared_game_state.time_order,
                                           [game_status |-> "Active"]))
    /\ Goto(h, "start_check", NoAttrs)
    /\ UNCHANGED <<HandlerFrame, shared_game_state, _player_counter,
                   _client_activity_queue>>

StartFrame == <<mode, backendVars, pushed, _player_counter, _client_activity_queue,
                _state_update_cache, serving, client>>

\* GameLoop.start, line 165: if not self._game_loop_thread.is_alive()
StartCheck(h) ==
    /\ At(h, "start_check")
    /\ IF is_alive(_game_loop_thread)
       THEN Return(h)
       ELSE Goto(h, "start_create", NoAttrs)
    /\ UNCHANGED <<StartFrame, shared_game_state, _game_loop_thread, loops>>

\* GameLoop.start, line 166: self._game_loop_thread = Thread(target=_update_cycle)
StartCreate(h) ==
    /\ At(h, "start_create")
    /\ FreeLoops # {}
    /\ _game_loop_thread' = NewLoop
    /\ loops' = [loops EXCEPT ![NewLoop] = [pc |-> "new", update |-> NoUpdate]]
    /\ Goto(h, "start_status", NoAttrs)
    /\ UNCHANGED <<StartFrame, shared_game_state>>

\* GameLoop.start, line 167: game_status = Active
StartStatus(h) ==
    /\ At(h, "start_status")
    /\ shared_game_state' = SetStatus(shared_game_state, "Active")
    /\ Goto(h, "start_run", NoAttrs)
    /\ UNCHANGED <<StartFrame, _game_loop_thread, loops>>

\* GameLoop.start, line 168: self._game_loop_thread.start(); starting a Thread
\* a second time raises RuntimeError, which ends the handler without a response
StartRun(h) ==
    /\ At(h, "start_run")
    /\ IF loops[_game_loop_thread].pc = "new"
       THEN /\ loops' = [loops EXCEPT ![_game_loop_thread].pc = "check"]
            /\ Return(h)
       ELSE /\ handlers' = [handlers EXCEPT ![h] = DoneHandler]
            /\ UNCHANGED loops
    /\ UNCHANGED <<StartFrame, shared_game_state, _game_loop_thread>>

\* lines 117-126: the join update, built from time_order and _player_counter
JoinBuild(h) ==
    /\ At(h, "join_build")
    /\ Goto(h, "join_inc_read",
            [update |-> GameStateUpdate(shared_game_state.time_order + 1,
                            [players |-> (_player_counter :> handlers[h].name)])])
    /\ UNCHANGED <<HandlerFrame, pushed, shared_game_state, _player_counter,
                   _client_activity_queue, _state_update_cache>>

\* line 127, _player_counter += 1: the read
JoinIncRead(h) ==
    /\ At(h, "join_inc_read")
    /\ Goto(h, "join_inc_write", [tmp |-> _player_counter])
    /\ UNCHANGED <<HandlerFrame, pushed, shared_game_state, _player_counter,
                   _client_activity_queue, _state_update_cache>>

\* line 127, _player_counter += 1: the write
JoinIncWrite(h) ==
    /\ At(h, "join_inc_write")
    /\ _player_counter' = handlers[h].tmp + 1
    /\ Goto(h, "join_apply", NoAttrs)
    /\ UNCHANGED <<HandlerFrame, pushed, shared_game_state, _client_activity_queue,
                   _state_update_cache>>

\* line 128: shared_game_state += update
JoinApply(h) ==
    /\ At(h, "join_apply")
    /\ shared_game_state' = Apply(shared_game_state, handlers[h].update)
    /\ Goto(h, "join_cache", NoAttrs)
    /\ UNCHANGED <<HandlerFrame, pushed, _player_counter, _client_activity_queue,
                   _state_update_cache>>

\* line 129: cache the join update
JoinCache(h) ==
    /\ At(h, "join_cache")
    /\ _cache_state_update(handlers[h].update)
    /\ Return(h)
    /\ UNCHANGED <<HandlerFrame, shared_game_state, _player_counter,
                   _client_activity_queue>>

\* a bug variant: the activity is put on the queue twice
queue_append_Twice(queue, body) == Append(Append(queue, body), body)

\* line 132, _client_activity_queue.append(request.body)
queue_append(queue, body) == Append(queue, body)

\* line 132: any other activity goes onto the queue of the game loop
Enqueue(h) ==
    /\ At(h, "enqueue")
    /\ _client_activity_queue' = queue_append(_client_activity_queue, handlers[h].payload)
    /\ Return(h)
    /\ UNCHANGED <<HandlerFrame, pushed, shared_game_state, _player_counter,
                   _state_update_cache>>

\* what the client holds after a response: a full state replaces its state,
\* the update answering its own time_order is applied to it
client_receives(c, request, response) ==
    IF response.kind = "state"
    THEN [known |-> TRUE, state |-> response.body]
    ELSE IF response.kind = "update" /\ c.known /\ c.state.time_order = request.time_order
         THEN [c EXCEPT !.state = Apply(c.state, response.body)]
         ELSE c

\* lines 86 and 142: the response of a query or the error is sent and the
\* handler thread ends
Send(h) ==
    /\ At(h, "send")
    /\ handlers' = [handlers EXCEPT ![h] = DoneHandler]
    /\ client' = client_receives(client, handlers[h], handlers[h].response)
    /\ UNCHANGED <<mode, backendVars, _game_loop_thread, loops, serving, pushed,
                   shared_game_state, _player_counter, _client_activity_queue,
                   _state_update_cache>>

LoopStep(i, cap) ==
    \/ LoopCheck(i, cap)
    \/ LoopBuild(i)
    \/ LoopActivities(i)
    \/ LoopRaise(i)
    \/ LoopApply(i)
    \/ LoopCache(i)

\* the handlers of the requests that change shared objects
ActivityStep(h, cap) ==
    \/ ReceivePause(h, cap) \/ ReceiveResume(h, cap) \/ ReceiveJoin(h, cap)
    \/ PauseFlag(h) \/ PauseIncRead(h) \/ PauseIncWrite(h) \/ PauseCache(h)
    \/ ResumeIncRead(h) \/ ResumeIncWrite(h) \/ ResumeCache(h)
    \/ StartCheck(h) \/ StartCreate(h) \/ StartStatus(h) \/ StartRun(h)
    \/ JoinBuild(h) \/ JoinIncRead(h) \/ JoinIncWrite(h) \/ JoinApply(h) \/ JoinCache(h)

ServiceRunInit ==
    /\ mode = "service"
    /\ StoreInit
    /\ pushed = <<>>
    /\ ServiceInit
    /\ ServerInit
    /\ MachineIdle

ServiceNext ==
    \/ ServiceStart
    \/ \E i \in LoopIds : LoopStep(i, MaxTime)
    \/ \E h \in HandlerIds : ActivityStep(h, MaxTime)

\* the threaded service: every interleaving of the statements of the game-loop
\* threads and of the handler threads of Join, PauseGame and ResumeGame
SpecService == ServiceRunInit /\ [][ServiceNext]_vars

\* the handlers of the queries and of the requests answered with an error
QueryStep(h) ==
    \/ ReceiveUpdateRequest(h) \/ HandleUpdateRequest(h)
    \/ ReceiveStateRequest(h) \/ HandleStateRequest(h) \/ HandleStateRequestRest(h)
    \/ ReceiveMalformed(h) \/ ReceiveInvalid(h)
    \/ Send(h)

\* any other activity: put on the queue of the game loop
OtherStep(h) == ReceiveOther(h) \/ Enqueue(h)

SerialInit ==
    /\ mode = "serial"
    /\ StoreInit
    /\ pushed = <<>>
    /\ ServiceInit
    /\ ServerInit
    /\ MachineIdle

SerialNext ==
    \/ ServiceStart
    \/ \E i \in LoopIds : LoopStep(i, MaxTime)
    \/ \E h \in HandlerIds : ActivityStep(h, MaxTime)
    \/ \E h \in HandlerIds : OtherStep(h)
    \/ \E h \in HandlerIds : QueryStep(h)

\* the service with every request and every loop iteration run to its end
\* before another thread runs, and a client that syncs with it
SpecSerial == SerialInit /\ [][SerialNext]_vars

\* the handlers of state requests
StateRequestStep(h) ==
    \/ ReceiveStateRequest(h) \/ HandleStateRequest(h) \/ HandleStateRequestRest(h)
    \/ Send(h)

ReadNext ==
    \/ ServiceStart
    \/ \E i \in LoopIds : LoopStep(i, MaxTime)
    \/ \E h \in HandlerIds : OtherStep(h)
    \/ \E h \in HandlerIds : StateRequestStep(h)

\* the threaded service with a ticking loop, clients that post activities for
\* it and clients that ask for the state
SpecRead == ServiceRunInit /\ [][ReadNext]_vars

(***************************************************************************)
(* GameStateMachine: run_game_loop, stop, _push_event                      *)
(* (src/pygase/backend.py)                                                 *)
(*                                                                         *)
(* run_game_loop runs in the thread run_game_loop_in_thread starts, stop   *)
(* and _push_event in the threads of their callers; nothing synchronises   *)
(* them, so each read of the store and each push is a step of its own.     *)
(* `state += update` changes the state object in place, so the loop's      *)
(* local `game_state` is the store's state.                                *)
(***************************************************************************)
\* events the application puts
MaxEvents == 2

is_active(state) ==
    "game_status" \in DOMAIN state.attrs /\ state.attrs["game_status"] = "Active"

\* the application's time_step(game_state, dt): the attributes of one step
time_step(game_state) == [hp |-> 100]
\* the handlers registered for the events: the attributes the event sets
handle_event(event) == IF event % 2 = 1 THEN [hp |-> event, mp |-> event]
                                        ELSE [hp |-> event]

\* a bug variant: an attribute already in the dict keeps its value
dict_update_KeepFirst(d, u) ==
    [k \in DOMAIN d \cup DOMAIN u |-> IF k \in DOMAIN d THEN d[k] ELSE u[k]]

\* update_dict.update(event_update): the attributes of event_update replace
\* those of update_dict
dict_update(d, u) ==
    [k \in DOMAIN d \cup DOMAIN u |-> IF k \in DOMAIN u THEN u[k] ELSE d[k]]

\* GameStateStore.__init__ with the application's initial state
MachineStoreInit ==
    /\ \E status \in {"Paused", "Active"} :
           _game_state = [time_order |-> 0, attrs |-> [game_status |-> status]]
    /\ _game_state_update_cache = <<GameStateUpdate(0, NoAttrs)>>

IsMachine == mode = "machine"
MachineFrame == <<mode, dispatchVars, serviceVars>>
MachineGoto(i, pc) == machines' = [machines EXCEPT ![i].pc = pc]

\* a call of run_game_loop, by run_game_loop_in_thread or directly; the
\* calls are numbered in the order they are made
RunGameLoop(i) ==
    /\ IsMachine
    /\ machines[i].pc = "unused"
    /\ \A j \in MachineIds : j < i => machines[j].pc # "unused"
    /\ MachineGoto(i, "status")
    /\ UNCHANGED <<MachineFrame, storeVars, pushed, _game_loop_is_running,
                   _event_queue, stopper, handled, enqueued>>

\* if get_game_state().game_status == Paused
MachineStatus(i) ==
    /\ IsMachine
    /\ machines[i].pc = "status"
    /\ MachineGoto(i, IF is_paused(_game_state) THEN "resume_read" ELSE "fetch")
    /\ UNCHANGED <<MachineFrame, storeVars, pushed, _game_loop_is_running,
                   _event_queue, stopper, handled, enqueued>>

\* the argument get_game_state().time_order + 1 of the resuming update
MachineResumeRead(i) ==
    /\ IsMachine
    /\ machines[i].pc = "resume_read"
    /\ machines' = [machines EXCEPT ![i].pc = "resume_push",
                                    ![i].time_order = _game_state.time_order]
    /\ UNCHANGED <<MachineFrame, storeVars, pushed, _game_loop_is_running,
                   _event_queue, stopper, handled, enqueued>>

\* push_update(GameStateUpdate(time_order + 1, game_status = Active))
MachineResumePush(i) ==
    /\ IsMachine
    /\ machines[i].pc = "resume_push"
    /\ push_update(GameStateUpdate(machines[i].time_order + 1,
                                   [game_status |-> "Active"]))
    /\ MachineGoto(i, "fetch")
    /\ UNCHANGED <<MachineFrame, _game_loop_is_running, _event_queue, stopper,
                   handled, enqueued>>

\* game_state = get_game_state(); _game_loop_is_running = True
MachineFetch(i) ==
    /\ IsMachine
    /\ machines[i].pc = "fetch"
    /\ _game_loop_is_running' = TRUE
    /\ MachineGoto(i, "check")
    /\ UNCHANGED <<MachineFrame, storeVars, pushed, _event_queue, stopper,
                   handled, enqueued>>

\* while game_state.game_status == Active; after the loop
\* _game_loop_is_running = False.  No tick starts at time_order cap.
MachineCheck(i, cap) ==
    /\ IsMachine
    /\ machines[i].pc = "check"
    /\ IF is_active(_game_state)
       THEN /\ _game_state.time_order < cap
            /\ MachineGoto(i, "time_step")
            /\ UNCHANGED _game_loop_is_running
       ELSE /\ MachineGoto(i, "done")
            /\ _game_loop_is_running' = FALSE
    /\ UNCHANGED <<MachineFrame, storeVars, pushed, _event_queue, stopper,
                   handled, enqueued>>

\* update_dict = self.time_step(game_state, dt)
MachineTimeStep(i) ==
    /\ IsMachine
    /\ machines[i].pc = "time_step"
    /\ machines' = [machines EXCEPT ![i].pc = "drain",
                                    ![i].update_dict = time_step(_game_state),
                                    ![i].events = <<>>]
    /\ UNCHANGED <<MachineFrame, storeVars, pushed, _game_loop_is_running,
                   _event_queue, stopper, handled, enqueued>>

\* a bug variant: the draining also ends when the deadline has passed
drain_ends_AtDeadline(queue, past_deadline) == queue = <<>> \/ past_deadline

\* the test of `while not self._event_queue.empty()`: the draining ends when
\* the queue is empty; the time spent so far is not looked at here
drain_ends(queue, past_deadline) == queue = <<>>

\* while not _event_queue.empty(): event = await _event_queue.get()
MachineGet(i) ==
    /\ IsMachine
    /\ machines[i].pc = "drain"
    /\ \E past_deadline \in BOOLEAN :
           IF drain_ends(_event_queue, past_deadline)
           THEN /\ MachineGoto(i, "push_read")
                /\ UNCHANGED _event_queue
           ELSE /\ machines' = [machines EXCEPT ![i].pc = "handle",
                                                ![i].event = Head(_event_queue)]
                /\ _event_queue' = Tail(_event_queue)
    /\ UNCHANGED <<MachineFrame, storeVars, pushed, _game_loop_is_running,
                   stopper, handled, enqueued>>

\* event_update = await handle(event); update_dict.update(event_update);
\* then the deadline check: past 95 % of the interval the draining ends
MachineHandle(i) ==
    /\ IsMachine
    /\ machines[i].pc = "handle"
    /\ handled' = Append(handled, machines[i].event)
    /\ \E past_deadline \in BOOLEAN :
           machines' = [machines EXCEPT
               ![i].pc = IF past_deadline THEN "push_read" ELSE "drain",
               ![i].event = 0,
               ![i].events = Append(@, machines[i].event),
               ![i].update_dict = dict_update(@, handle_event(machines[i].event))]
    /\ UNCHANGED <<MachineFrame, storeVars, pushed, _game_loop_is_running,
                   _event_queue, stopper, enqueued>>

\* the argument game_state.time_order + 1 of the tick's update
MachinePushRead(i) ==
    /\ IsMachine
    /\ machines[i].pc = "push_read"
    /\ machines' = [machines EXCEPT ![i].pc = "push",
                                    ![i].time_order = _game_state.time_order]
    /\ UNCHANGED <<MachineFrame, storeVars, pushed, _game_loop_is_running,
                   _event_queue, stopper, handled, enqueued>>

\* push_update(GameStateUpdate(time_order + 1, **update_dict));
\* game_state = get_game_state(); the pacing to the interval
MachinePush(i) ==
    /\ IsMachine
    /\ machines[i].pc = "push"
    /\ push_update(GameStateUpdate(machines[i].time_order + 1,
                                   machines[i].update_dict))
    /\ machines' = [machines EXCEPT ![i].pc = "check",
                                    ![i].update_dict = NoAttrs,
                                    ![i].time_order = 0,
                                    ![i].events = <<>>]
    /\ UNCHANGED <<MachineFrame, _game_loop_is_running, _event_queue, stopper,
                   handled, enqueued>>

\* a call of stop(timeout)
StopCall ==
    /\ IsMachine
    /\ stopper.pc = "idle"
    /\ stopper' = [stopper EXCEPT !.pc = "status"]
    /\ UNCHANGED <<MachineFrame, storeVars, pushed, _game_loop_is_running,
                   _event_queue, machines, handled, enqueued>>

\* if get_game_state().game_status == Active
StopStatus ==
    /\ IsMachine
    /\ stopper.pc = "status"
    /\ stopper' = [stopper EXCEPT !.pc = IF is_active(_game_state) THEN "read"
                                                                   ELSE "poll"]
    /\ UNCHANGED <<MachineFrame, storeVars, pushed, _game_loop_is_running,
                   _event_queue, machines, handled, enqueued>>

\* the argument get_game_state().time_order + 1 of the pausing update
StopRead ==
    /\ IsMachine
    /\ stopper.pc = "read"
    /\ stopper' = [stopper EXCEPT !.pc = "push",
                                  !.time_order = _game_state.time_order]
    /\ UNCHANGED <<MachineFrame, storeVars, pushed, _game_loop_is_running,
                   _event_queue, machines, handled, enqueued>>

\* push_update(GameStateUpdate(time_order + 1, game_status = Paused))
StopPush ==
    /\ IsMachine
    /\ stopper.pc = "push"
    /\ push_update(GameStateUpdate(stopper.time_order + 1,
                                   [game_status |-> "Paused"]))
    /\ stopper' = [stopper EXCEPT !.pc = "poll"]
    /\ UNCHANGED <<MachineFrame, _game_loop_is_running, _event_queue, machines,
                   handled, enqueued>>

\* while _game_loop_is_running: the loop has ended, or the timeout has
\* passed; return not _game_loop_is_running
StopReturn ==
    /\ IsMachine
    /\ stopper.pc = "poll"
    /\ stopper' = [stopper EXCEPT !.pc = "done",
                                  !.result = ~_game_loop_is_running]
    /\ UNCHANGED <<MachineFrame, storeVars, pushed, _game_loop_is_running,
                   _event_queue, machines, handled, enqueued>>

\* _push_event(event): the event is put at the end of the queue
PushEvent ==
    /\ IsMachine
    /\ enqueued < MaxEvents
    /\ enqueued' = enqueued + 1
    /\ _event_queue' = Append(_event_queue, enqueued + 1)
    /\ UNCHANGED <<MachineFrame, storeVars, pushed, _game_loop_is_running,
                   machines, stopper, handled>>

MachineStep(i, cap) ==
    \/ RunGameLoop(i) \/ MachineStatus(i)
    \/ MachineResumeRead(i) \/ MachineResumePush(i) \/ MachineFetch(i)
    \/ MachineCheck(i, cap) \/ MachineTimeStep(i)
    \/ MachineGet(i) \/ MachineHandle(i)
    \/ MachinePushRead(i) \/ MachinePush(i)

StopStep == StopCall \/ StopStatus \/ StopRead \/ StopPush \/ StopReturn

MachineInit ==
    /\ mode = "machine"
    /\ MachineStoreInit
    /\ pushed = <<>>
    /\ ServiceInit
    /\ ServerInit
    /\ MachineIdle

MachineNext ==
    \/ \E i \in MachineIds : MachineStep(i, MaxTime)
    \/ StopStep
    \/ PushEvent

\* a GameStateMachine on its store: calls of run_game_loop, a call of stop,
\* events put by other threads
SpecMachine == MachineInit /\ [][MachineNext]_vars

\* Backend.run: one run_game_loop_in_thread, events wired in by the server,
\* stop() when the server has ended
BackendNext ==
    \/ MachineStep(1, MaxTime)
    \/ StopStep
    \/ PushEvent

\* the backend as Backend.run runs it; the thread of the loop is a thread of
\* its own and keeps being scheduled
SpecBackend ==
    MachineInit /\ [][BackendNext]_vars /\ WF_vars(MachineStep(1, MaxTime))

(***************************************************************************)
(* Store harness: any caller pushing any update                            *)
(***************************************************************************)
\* attribute sets a harness update may carry
HarnessAttrs ==
    { NoAttrs,
      [hp |-> 90],
      [hp |-> 80],
      [players |-> (0 :> "A")],
      [players |-> (0 :> TO_DELETE)] }

HarnessUpdates(maxT) ==
    { GameStateUpdate(t, a) : t \in 0..maxT, a \in HarnessAttrs }

StoreHarnessInit ==
    /\ mode = "store"
    /\ StoreInit
    /\ pushed = <<>>
    /\ ServiceInit
    /\ ServerInit
    /\ MachineIdle

HarnessPush ==
    /\ mode = "store"
    /\ Len(pushed) < MaxPushes
    /\ \E u \in HarnessUpdates(MaxTime) : push_update(u)
    /\ UNCHANGED <<mode, serviceVars, dispatchVars, machineVars>>

SpecStore == StoreHarnessInit /\ [][HarnessPush]_vars

(***************************************************************************)
(* One dispatch and its retries                                            *)
(***************************************************************************)
DispatchInit ==
    /\ mode = "dispatch"
    /\ StoreInit
    /\ pushed = <<>>
    /\ ServiceInit
    /\ ServerInit
    /\ MachineIdle

DispatchNext ==
    \/ DispatchEvent
    \/ \E c \in Clients, r \in 0..MaxRetries : Timeout(c, r)
    \/ \E c \in Clients, r \in 0..MaxRetries : Acknowledge(c, r)

\* one call of Server.dispatch_event and what the connections make of it
SpecDispatch == DispatchInit /\ [][DispatchNext]_vars

(***************************************************************************)
(* Long runs: more updates than the caches hold                            *)
(***************************************************************************)
\* updates pushed / loop iterations run in a long run
MaxLongTime == 102
\* pushes of a long run that repeat the time_order of the state
MaxStale == 1

\* the caller pushes the next update, or one that repeats the state's time_order
LongPush ==
    /\ mode = "store"
    /\ Len(pushed) < MaxLongTime
    /\ \/ push_update(GameStateUpdate(_game_state.time_order + 1, [hp |-> 90]))
       \/ /\ Len(pushed) - _game_state.time_order < MaxStale
          /\ push_update(GameStateUpdate(_game_state.time_order, [hp |-> 80]))
    /\ UNCHANGED <<mode, serviceVars, dispatchVars, machineVars>>

LongInit ==
    /\ mode \in {"store", "serial"}
    /\ StoreInit
    /\ pushed = <<>>
    /\ ServiceInit
    /\ ServerInit
    /\ MachineIdle

LongNext ==
    \/ LongPush
    \/ ServiceStart
    \/ \E i \in LoopIds : LoopStep(i, MaxLongTime)
    \/ \E h \in HandlerIds :
          ReceiveUpdateRequest(h) \/ HandleUpdateRequest(h) \/ Send(h)

\* a store whose caller pushes more than a cache of updates, or a service whose
\* game loop runs more iterations than its cache holds updates
SpecCache == LongInit /\ [][LongNext]_vars

(***************************************************************************)
(* Properties                                                              *)
(***************************************************************************)
\* what __init__ puts into the store's cache before any push
SeedCache == <<GameStateUpdate(0, NoAttrs)>>

\* C1 as stated: after any pushes, a cache never holds more than 100 entries
\* and holds exactly the most recently pushed updates (up to 100), in the
\* order of the pushes.
C1_CacheIsLatestPushes ==
    Len(pushed) >= 1 =>
        /\ mode = "store" =>
              /\ Len(_game_state_update_cache) <= 100
              /\ _game_state_update_cache = LastN(pushed, 100)
        /\ mode = "serial" =>
              /\ Len(_state_update_cache) <= 100
              /\ _state_update_cache = LastN(pushed, 100)

\* C1: a cache never holds more than 100 entries.  The store's cache holds
\* the last 100 entries of the sequence made of the GameStateUpdate(0) that
\* __init__ seeds it with followed by the pushed updates, in push order (so
\* exactly the 100 latest pushes once 100 updates were pushed); the game
\* loop's cache, which starts empty, holds exactly the latest pushed updates
\* (up to 100) in push order.  Beyond 100 exactly the oldest entry goes.
C1_CacheIsLatestPushesAfterSeed ==
    /\ mode = "store" =>
          /\ Len(_game_state_update_cache) <= 100
          /\ _game_state_update_cache = LastN(SeedCache \o pushed, _update_cache_size)
    /\ mode = "serial" =>
          /\ Len(_state_update_cache) <= 100
          /\ _state_update_cache = LastN(pushed, UPDATE_CACHE_SIZE)

\* the store after 102 pushes: the seed and the two oldest pushes are gone
C1_Witness ==
    /\ mode = "store"
    /\ Len(pushed) = 102
    /\ Len(_game_state_update_cache) = 100
    /\ _game_state_update_cache[1] = pushed[3]
    /\ _game_state_update_cache[100] = pushed[102]

\* C2: a push_update whose update is not newer than the canonical state
\* (time_order <= the state's) leaves the canonical state, time_order and
\* every attribute, as it was; so does a second, different update with the
\* time_order of one already applied.
C2_StalePushKeepsState ==
    [][(pushed' # pushed /\ ~Gt(pushed'[Len(pushed')], _game_state))
          => _game_state' = _game_state]_vars

\* hp=90 pushed at time_order 1, then hp=80 at time_order 1: hp is still 90
C2_Witness ==
    /\ mode = "store"
    /\ pushed = <<GameStateUpdate(1, [hp |-> 90]), GameStateUpdate(1, [hp |-> 80])>>
    /\ _game_state = [time_order |-> 1, attrs |-> [hp |-> 90]]

\* C3: the time_order of the service's canonical state never decreases,
\* whatever ticks and join, pause and resume requests interleave, and a step
\* that applies an update newer than the state leaves the state with that
\* update's time_order.
C3_TimeOrderNeverDecreases ==
    [][/\ shared_game_state'.time_order >= shared_game_state.time_order
       /\ \A i \in LoopIds :
             (loops[i].pc = "apply" /\ loops'[i].pc = "cache"
              /\ Gt(loops[i].update, shared_game_state))
                => shared_game_state'.time_order = loops[i].update.time_order
       /\ \A h \in HandlerIds :
             (handlers[h].pc = "join_apply" /\ handlers'[h].pc = "join_cache"
              /\ Gt(handlers[h].update, shared_game_state))
                => shared_game_state'.time_order = handlers[h].update.time_order
      ]_vars

\* C4: any two updates in the game loop's cache that carry the same
\* time_order are the same update, whatever ticks and join, pause and resume
\* requests interleave.
C4_EqualTimeOrderEqualContent ==
    \A i, j \in 1..Len(_state_update_cache) :
        _state_update_cache[i].time_order = _state_update_cache[j].time_order
            => _state_update_cache[i] = _state_update_cache[j]

\* the join updates handed to the cache so far, and the ids they assign
JoinUpdates == {i \in 1..Len(pushed) : "players" \in DOMAIN pushed[i].attrs}
JoinIds == UNION {DOMAIN pushed[i].attrs["players"] : i \in JoinUpdates}
StatePlayers ==
    IF "players" \in DOMAIN shared_game_state.attrs
    THEN DOMAIN shared_game_state.attrs["players"]
    ELSE {}

\* C5: once n Join requests have been handled (and none is being handled),
\* whatever the interleaving of the handler threads, the ids they assigned
\* are exactly 0..n-1, one per join, and the canonical state's players
\* mapping has one record per id.
C5_JoinIdsSequential ==
    (\A h \in HandlerIds : handlers[h].kind # "join" \/ handlers[h].pc = "done")
        => LET n == Cardinality(JoinUpdates)
           IN /\ JoinIds = 0..(n - 1)
              /\ StatePlayers = 0..(n - 1)

\* the cached updates a client at time_order t lacks
Newer(cache, t) == {i \in 1..Len(cache) : cache[i].time_order > t}

\* among the updates at the indices in `among`, the one with the greatest
\* time_order
Newest(cache, among) ==
    CHOOSE i \in among : \A j \in among : cache[j].time_order <= cache[i].time_order

\* the combination, in ascending time_order, of the cached updates newer than
\* t: it carries the greatest of their time_orders, and every attribute and
\* every player record that one of them sets, with the value of the newest
\* that sets it
ExpectedCatchUp(cache, t) ==
    LET inc == Newer(cache, t)
        keys == UNION {DOMAIN cache[i].attrs : i \in inc}
        setting(k) == {i \in inc : k \in DOMAIN cache[i].attrs}
        ids == UNION {DOMAIN cache[i].attrs["players"] : i \in setting("players")}
        naming(id) == {i \in setting("players") : id \in DOMAIN cache[i].attrs["players"]}
    IN [time_order |-> IF inc = {} THEN t ELSE cache[Newest(cache, inc)].time_order,
        attrs |-> [k \in keys |->
            IF k = "players"
            THEN [id \in ids |-> cache[Newest(cache, naming(id))].attrs["players"][id]]
            ELSE cache[Newest(cache, setting(k))].attrs[k]]]

\* C6: the response to an update request carrying the client's time_order t
\* is the combination, in ascending time_order, of exactly the cached updates
\* with time_order > t: none of them is left out, no update with
\* time_order <= t contributes, and the response carries the time_order of
\* the newest of them.
C6_CatchUpResponse ==
    \A h \in HandlerIds :
        (handlers[h].pc = "send" /\ handlers[h].kind = "update")
            => /\ handlers[h].response.kind = "update"
               /\ handlers[h].response.body =
                     ExpectedCatchUp(_state_update_cache, handlers[h].time_order)

\* a client at time_order 1 asks while the cache holds the join update of
\* time_order 1 and a later update: the answer is the later update alone
C6_Witness ==
    \E h \in HandlerIds :
        /\ handlers[h].pc = "send"
        /\ handlers[h].kind = "update"
        /\ handlers[h].time_order = 1
        /\ Len(_state_update_cache) = 2
        /\ _state_update_cache[1].time_order = 1
        /\ "players" \in DOMAIN _state_update_cache[1].attrs
        /\ _state_update_cache[2].time_order = 2
        /\ handlers[h].response.body = _state_update_cache[2]

\* C7: an update request whose time_order is older than the oldest update
\* still cached, updates the client lacks having been evicted, is answered
\* with the full current state and not with a combined update.
C7_FullStateWhenEvicted ==
    \A h \in HandlerIds :
        (/\ handlers[h].pc = "send"
         /\ handlers[h].kind = "update"
         /\ Len(pushed) > Len(_state_update_cache)
         /\ handlers[h].time_order + 1 < _state_update_cache[1].time_order)
            => /\ handlers[h].response.kind = "state"
               /\ handlers[h].response.body = shared_game_state

\* C8: a client that holds the server's state as of time_order t and applies
\* the catch-up response for t (the cached updates newer than t, combined
\* into one update) ends with the server's canonical state, as it would by
\* applying those updates one at a time.
C8_CatchUpSyncsClient ==
    [][\A h \in HandlerIds :
          (/\ handlers[h].pc = "send" /\ handlers'[h].pc = "done"
           /\ handlers[h].kind = "update"
           /\ client.known
           /\ client.state.time_order = handlers[h].time_order)
              => client'.state = shared_game_state'
      ]_vars

NothingPending == \A c \in Clients, r \in 0..MaxRetries : pending[c][r] = 0
NoAckArrived == \A c \in Clients : acks[c] = 0

\* C9: dispatch_event to one connected client with retries = n, as long as
\* no acknowledgment arrives: nothing is raised to the caller, no other
\* connection is sent anything, every timeout is followed by exactly one
\* resend with one retry less, and when nothing is pending any more the
\* client was sent the event exactly n + 1 times.
C9_SingleTargetSends ==
    (call.made /\ call.target_client \in connections /\ NoAckArrived)
        => /\ ~call.raised
           /\ \A c \in Clients \ {call.target_client} : sent[c] = 0
           /\ sent[call.target_client] <= call.retries + 1
           /\ \A r \in 0..MaxRetries :
                 pending[call.target_client][r] > 0
                    => /\ pending[call.target_client][r] = 1
                       /\ sent[call.target_client] = call.retries - r + 1
           /\ NothingPending => sent[call.target_client] = call.retries + 1

\* retries = 2 to client "a", every send timed out: 3 sends, and no more to come
C9_Witness ==
    /\ call.made
    /\ call.target_client = "a"
    /\ call.retries = 2
    /\ ~call.raised
    /\ NoAckArrived
    /\ NothingPending
    /\ sent["a"] = 3

\* C10: a broadcast dispatch_event (target "all") with retries = n sends the
\* event to each connection at most n + 1 times, whichever of the
\* connections time out or acknowledge.
C10_BroadcastSendsBounded ==
    (call.made /\ call.target_client = "all")
        => \A c \in Clients : sent[c] <= call.retries + 1

\* C11: for one dispatch_event call with an ack_callback, the callback is
\* called at most once per target connection and only for acknowledgments
\* that connection made, also with retries and in a broadcast where some
\* connections acknowledge and others time out.
C11_AckCallbackOnce ==
    (call.made /\ call.ack_callback)
        => \A c \in Clients : ack_calls[c] <= 1 /\ ack_calls[c] <= acks[c]

\* C12: dispatch_event to a target that is no connection raises at the call
\* site, hands the event to no connection and leaves the connections as they
\* were.
C12_UnknownTargetRaises ==
    (call.made /\ call.target_client \notin connections \cup {"all"})
        => /\ call.raised
           /\ \A c \in Clients : sent[c] = 0 /\ acks[c] = 0 /\ ack_calls[c] = 0
           /\ NothingPending
           /\ connections = Clients

\* the call to the address that is not connected has raised
C12_Witness ==
    /\ call.made
    /\ call.target_client = Stranger
    /\ call.retries = MaxRetries
    /\ call.raised
    /\ \A c \in Clients : sent[c] = 0

\* C13: a push_update whose update is not newer than the canonical state
\* fails the caller and leaves the canonical state and the update cache as
\* they were.
C13_StalePushRejected ==
    [][(pushed' # pushed /\ ~Gt(pushed'[Len(pushed')], _game_state))
          => /\ _game_state' = _game_state
             /\ _game_state_update_cache' = _game_state_update_cache]_vars

\* the updates applied to the service's state so far, in the order applied,
\* where only the game loop applies updates: the cached ones, then the one a
\* loop thread has applied and not yet cached
LoopApplied ==
    LET inflight == {i \in LoopIds : loops[i].pc = "cache"}
    IN IF inflight = {} THEN pushed
       ELSE Append(pushed, loops[CHOOSE i \in inflight : TRUE].update)

RECURSIVE ApplyAll(_, _)
ApplyAll(state, updates) ==
    IF updates = <<>> THEN state
    ELSE ApplyAll(Apply(state, Head(updates)), Tail(updates))

\* the complete versions the state of a started service has had so far
Versions ==
    {ApplyAll([time_order |-> 0, attrs |-> [game_status |-> "Active"]],
              SubSeq(LoopApplied, 1, k)) : k \in 0..Len(LoopApplied)}

\* C14: a state read by a request handler while the loop applies its updates
\* is a complete version of the state, the one before an update or the one
\* after it, never a mix of the two.
C14_ReadsSeeCompleteVersion ==
    \A h \in HandlerIds :
        (handlers[h].pc = "send" /\ handlers[h].kind = "state")
            => handlers[h].response.body \in Versions

\* stop() has pushed its pausing update, and no update pushed since carries a
\* game_status
StopStanding ==
    \E k \in DOMAIN pushed :
        /\ pushed[k].attrs = [game_status |-> "Paused"]
        /\ \A j \in DOMAIN pushed : j > k => "game_status" \notin DOMAIN pushed[j].attrs

\* C15: once stop() has pushed its pausing update while the one loop is
\* Active, that loop starts no new tick, however stop's read of the
\* time_order and its push interleave with the pushes of the loop.
C15_StopNeverLost ==
    [][(StopStanding /\ machines[2].pc = "unused")
          => ~(machines[1].pc = "check" /\ machines'[1].pc = "time_step")]_vars

\* C16: the push that ends a tick of run_game_loop hands the store exactly one
\* update, and its time_order is the store's time_order before the push plus
\* one, whatever the tick found in the event queue.
C16_TickPushesNext ==
    [][\A i \in MachineIds :
          (machines[i].pc = "push" /\ machines'[i].pc = "check")
              => /\ Len(pushed') = Len(pushed) + 1
                 /\ pushed'[Len(pushed')].time_order = _game_state.time_order + 1]_vars

\* the events a loop has got from the queue and not yet handled
InHand == {i \in MachineIds : machines[i].pc = "handle"}

\* C17: the events are handled in the order they were put, each once, and
\* the events not yet got are still queued in that order, also while events
\* are put during the draining.
C17_EventsInOrderOnce ==
    /\ \A k \in DOMAIN handled : handled[k] = k
    /\ \A k \in DOMAIN _event_queue :
           _event_queue[k] = enqueued - Len(_event_queue) + k
    /\ Len(handled) + Cardinality(InHand) + Len(_event_queue) = enqueued

\* C18: a handler of PauseGame or ResumeGame caches exactly one update; it
\* carries the new game_status and nothing else, its time_order is the
\* time_order the handler found in the state plus one, and the state has that
\* time_order once the update is cached, whatever the loop thread does
\* meanwhile.
C18_StatusUpdateIsNext ==
    [][\A h \in HandlerIds :
          (/\ handlers[h].pc \in {"pause_cache", "resume_cache"}
           /\ handlers'[h].pc # handlers[h].pc)
              => /\ Len(pushed') = Len(pushed) + 1
                 /\ pushed'[Len(pushed')] =
                        GameStateUpdate(handlers[h].tmp + 1,
                            [game_status |-> IF handlers[h].pc = "pause_cache"
                                             THEN "Paused" ELSE "Active"])
                 /\ shared_game_state'.time_order = handlers[h].tmp + 1]_vars

\* the game_status of the last PauseGame or ResumeGame request handled
LastStatusRequest ==
    LET S == {k \in DOMAIN pushed : "game_status" \in DOMAIN pushed[k].attrs}
    IN IF S = {} THEN "none"
       ELSE pushed[CHOOSE k \in S : \A j \in S : j <= k].attrs["game_status"]

\* no request is being handled and no loop thread is running: nothing
\* happens until the next request arrives
Quiescent ==
    /\ serving
    /\ AllHandlersIdle
    /\ \A i \in LoopIds : loops[i].pc \in {"unused", "done"}

\* C19: when the last status request handled is a ResumeGame, the service
\* does not come to rest with the game Paused.
C19_ResumeTakesEffect ==
    (Quiescent /\ LastStatusRequest = "Active") => is_active(shared_game_state)

\* the calls of run_game_loop that are inside a tick
Ticking ==
    {i \in MachineIds :
        machines[i].pc \in {"time_step", "drain", "handle", "push_read", "push"}}

\* C20: at most one loop is inside a tick on the store, however many times
\* and in whatever order run_game_loop is called.
C20_OneLoopTicking == Cardinality(Ticking) <= 1

\* the request handler h takes a step, and the request it handles is of one
\* of the kinds
Handles(h, kinds) ==
    /\ handlers'[h] # handlers[h]
    /\ handlers[h].kind \in kinds \/ handlers'[h].kind \in kinds

\* C21: no step of a handler of JoinServer, PauseGame or ResumeGame touches
\* the activity queue; the handler of any other activity appends the
\* activity it received to the queue, once and as received, and changes
\* neither the state nor the update cache.
C21_RoutedByType ==
    [][\A h \in HandlerIds :
          /\ Handles(h, {"join", "pause", "resume"})
                => _client_activity_queue' = _client_activity_queue
          /\ Handles(h, {"other"})
                => /\ shared_game_state' = shared_game_state
                   /\ _state_update_cache' = _state_update_cache
                   /\ pushed' = pushed
                   /\ IF handlers[h].pc = "enqueue"
                      THEN /\ _client_activity_queue' =
                                  Append(_client_activity_queue, handlers[h].payload)
                           /\ handlers'[h].pc = "done"
                      ELSE /\ _client_activity_queue' = _client_activity_queue
                           /\ handlers'[h].pc = "enqueue"
                           /\ handlers'[h].payload \in Payloads]_vars

\* an activity is on the queue and a player has joined
C21_Witness ==
    /\ _client_activity_queue # <<>>
    /\ _client_activity_queue[1] \in Payloads
    /\ _player_counter > 0

RECURSIVE Overlay(_, _)
Overlay(d, events) ==
    IF events = <<>> THEN d
    ELSE Overlay([k \in DOMAIN d \cup DOMAIN handle_event(Head(events)) |->
                    IF k \in DOMAIN handle_event(Head(events))
                    THEN handle_event(Head(events))[k] ELSE d[k]],
                 Tail(events))

C24_StateNotBehindCache ==
    \A k \in DOMAIN _game_state_update_cache :
        _game_state_update_cache[k].time_order <= _game_state.time_order

\* a newer update, then an older one, then one repeating the newest have
\* been pushed, and all are in the cache behind the seed entry
C24_Witness ==
    /\ mode = "store"
    /\ Len(pushed) = 3
    /\ pushed[1].time_order = 2
    /\ pushed[2].time_order = 1
    /\ pushed[3].time_order = 2
    /\ _game_state_update_cache = <<GameStateUpdate(0, NoAttrs)>> \o pushed
    /\ _game_state.time_order = 2

\* the time_orders of a cache grow strictly from each entry to the next
StrictlyAscending(cache) ==
    \A k \in 1..(Len(cache) - 1) : cache[k].time_order < cache[k + 1].time_order

\* C25: the update cache of the game loop and the update cache of the store
\* are strictly ascending in time_order, in the order the entries were
\* appended, whatever ticks, request handlers and stop() interleave.
C25_CacheStrictlyAscending ==
    /\ StrictlyAscending(_state_update_cache)
    /\ StrictlyAscending(_game_state_update_cache)

\* the loop of Backend.run will tick no more: it has ended, or it has reached
\* the last time_order looked at
TicksNoMore ==
    \/ machines[1].pc = "done"
    \/ machines[1].pc = "check" /\ _game_state.time_order >= MaxTime

InQueue(event) == \E k \in DOMAIN _event_queue : _event_queue[k] = event
IsHandled(event) == \E k \in DOMAIN handled : handled[k] = event

\* C26: a tick that finds the event queue non-empty gets an event and handles
\* it before the deadline can end the draining, so it does not go on to its
\* push with no event handled; and every queued event is eventually handled
\* unless the loop stops ticking.
C26_EventsNotStarved ==
    /\ [][/\ (machines[1].pc = "drain" /\ _event_queue # <<>>
                  /\ machines'[1] # machines[1])
              => machines'[1].pc = "handle"
          /\ (machines[1].pc = "handle" /\ machines'[1] # machines[1])
              => machines'[1].events # <<>>]_vars
    /\ \A event \in 1..MaxEvents :
           InQueue(event) ~> (IsHandled(event) \/ TicksNoMore)

\* a tick stopped draining at the deadline after the first of two queued
\* events, and the next tick handled the second
C26_Witness ==
    /\ handled = <<1, 2>>
    /\ \E j, k \in DOMAIN pushed :
           /\ j < k
           /\ pushed[j].attrs = [hp |-> 1, mp |-> 1]
           /\ pushed[k].attrs = [hp |-> 2]

=============================================================================
